---- MODULE Spec2Model ----
(***************************************************************************)
(* Deception & Consistency Engine of CluedoONyourTerminal.                 *)
(*                                                                         *)
(* Times are minutes counted from the generator's base time (18:00 of the  *)
(* day of play).  A float in [0,1] is an integer: lying_bias, threat and   *)
(* suspicion scores in percent, certainties and probabilities in           *)
(* millionths.                                                             *)
(* Optional values are sequences of length 0 (None) or 1.                  *)
(* Python dicts are insertion ordered and are modelled as sequences; the   *)
(* uuid4 identifier of a fact or a claim is its position in its sequence.  *)
(***************************************************************************)
EXTENDS Integers, Sequences, FiniteSets, TLC

VARIABLES
    current_case,     \* GameEngine.current_case        (Optional[Case])
    claims,           \* current_case.claims            (the claim ledger)
    knowledge_base,   \* GameEngine.knowledge_base      (Optional[KnowledgeBase])
    game_state,       \* GameEngine.game_state          (Optional[GameState])
    result,           \* what the last call returned or raised
    probe             \* a case handed to KnowledgeBase(case) / a stubbed generator

vars == <<current_case, claims, knowledge_base, game_state, result, probe>>

-----------------------------------------------------------------------------
(* Bounds of the model                                                     *)

MaxEvents == 2        \* longest timeline of a hand-built case
MaxTurns == 2         \* longest claim ledger explored in one session

-----------------------------------------------------------------------------
(* Program constants                                                       *)

NoTime == -1                  \* Fact.time = None, params.get("time") = None
ExclusivityWindow == 30       \* timedelta(minutes=30)
DayWindow == 1440             \* timedelta(hours=24), initial min_time_diff
WeaponWindow == 60            \* timedelta(hours=1) in _query_weapon
MinClues == 3                 \* validate_case: len(case.clues) < 3
LieRetries == 3               \* for _ in range(3) in _plan_lie_response
WitnessCertainty == 800000    \* certainty=0.8, in millionths
EvasionCertainty == 800000
OmissionCertainty == 700000
LieCertainty == 700000
WeaponLieCertainty == 600000
FullCertainty == 1000000

Abs(x) == IF x < 0 THEN -x ELSE x
Min(a, b) == IF a < b THEN a ELSE b
Max(a, b) == IF a < b THEN b ELSE a

Range(s) == {s[i] : i \in 1..Len(s)}

RECURSIVE Flatten(_)
Flatten(ss) == IF ss = <<>> THEN <<>> ELSE Head(ss) \o Flatten(Tail(ss))

-----------------------------------------------------------------------------
(* Data model (models.py)                                                  *)

Fact(subject, predicate, object, time, certainty) ==
    [subject |-> subject, predicate |-> predicate, object |-> object,
     time |-> time, certainty |-> certainty]

\* Fact.__eq__: identity is (subject, predicate, object, time)
FactEq(f, g) ==
    /\ f.subject = g.subject
    /\ f.predicate = g.predicate
    /\ f.object = g.object
    /\ f.time = g.time

Event(time, actor, action, location, objects, is_crime) ==
    [time |-> time, actor |-> actor, action |-> action, location |-> location,
     objects |-> objects, is_crime |-> is_crime]

Murder(murderer, time, location, weapon) ==
    [murderer |-> murderer, time |-> time, location |-> location, weapon |-> weapon]

-----------------------------------------------------------------------------
(* Case generator (case_generator.py)                                      *)

\* the facts one event expands to: location, action, one per object
EventFacts(e) ==
    <<Fact(e.actor, "was_at", e.location, e.time, FullCertainty),
      Fact(e.actor, "did", e.action, e.time, FullCertainty)>>
    \o [i \in 1..Len(e.objects) |->
          Fact(e.actor, "interacted_with", e.objects[i], e.time, FullCertainty)]

build_truth_matrix(timeline) ==
    Flatten([i \in 1..Len(timeline) |-> EventFacts(timeline[i])])

\* two events that put one actor in two places less than 30 minutes apart
EventsConflict(e1, e2) ==
    /\ e1.actor = e2.actor
    /\ e1.location # e2.location
    /\ Abs(e1.time - e2.time) < ExclusivityWindow

\* one entry per conflicting pair (i < j), as the nested loops append them
TimelineConflicts(timeline) ==
    {p \in (1..Len(timeline)) \X (1..Len(timeline)) :
        p[1] < p[2] /\ EventsConflict(timeline[p[1]], timeline[p[2]])}

CrimeEvents(timeline) == {i \in 1..Len(timeline) : timeline[i].is_crime}

\* validate_case: the set of issues found
validate_case_issues(case) ==
    (IF case.murder.murderer \notin Range(case.suspects)
        THEN {"Murderer is not in suspects list"} ELSE {})
    \cup (IF case.victim \in Range(case.suspects)
        THEN {"Victim is in suspects list"} ELSE {})
    \cup (IF TimelineConflicts(case.timeline) # {}
        THEN {"Temporal conflict"} ELSE {})
    \cup (IF Cardinality(CrimeEvents(case.timeline)) # 1
        THEN {"Must have exactly one murder event"} ELSE {})
    \cup (IF case.n_clues < MinClues
        THEN {"Not enough clues for a solvable case"} ELSE {})

validate_case(case) == validate_case_issues(case) = {}

-----------------------------------------------------------------------------
(* Knowledge base construction (knowledge_base.py)                         *)

\* add_fact: facts[fact.id] = fact with a fresh uuid, so the fact is appended
add_fact(facts, fact) == Append(facts, fact)

RECURSIVE AddFacts(_, _)
AddFacts(facts, new) ==
    IF new = <<>> THEN facts ELSE AddFacts(add_fact(facts, Head(new)), Tail(new))

\* _build_derived_facts: every event of the timeline is expanded and added
build_derived_facts(facts, timeline) ==
    AddFacts(facts, Flatten([i \in 1..Len(timeline) |-> EventFacts(timeline[i])]))

\* the event _validate_constraints compares with the Murder record: the first
\* is_crime event in timeline order (the loop breaks at it), None if there is none
FirstCrimeEvent(timeline) ==
    IF CrimeEvents(timeline) = {} THEN <<>>
    ELSE <<timeline[CHOOSE i \in CrimeEvents(timeline) :
                        \A j \in CrimeEvents(timeline) : i <= j]>>

\* faulty variant of MurderMismatches: the crime event is not compared
NoMurderCheck(case) == {}

MurderMismatches(case) ==
    LET me == FirstCrimeEvent(case.timeline) IN
    IF me = <<>> THEN {}
    ELSE (IF me[1].actor # case.murder.murderer
            THEN {"Murder event actor doesn't match murderer"} ELSE {})
         \cup (IF me[1].location # case.murder.location
            THEN {"Murder event location doesn't match murder location"} ELSE {})
         \cup (IF me[1].time # case.murder.time
            THEN {"Murder event time doesn't match murder time"} ELSE {})

\* _validate_constraints: the violations collected; non-empty raises
validate_constraints(case) ==
    (IF TimelineConflicts(case.timeline) # {} THEN {"Timeline violation"} ELSE {})
    \cup MurderMismatches(case)

\* KnowledgeBase(case): the store, or ConstraintViolation and no store
KnowledgeBase(case) ==
    IF validate_constraints(case) = {}
    THEN [ok |-> TRUE,
          facts |-> build_derived_facts(case.truth_matrix, case.timeline)]
    ELSE [ok |-> FALSE, facts |-> <<>>]

-----------------------------------------------------------------------------
(* Cases                                                                   *)

Locations == <<"location_0", "location_1", "location_2">>
Weapons == <<"weapon_0", "weapon_1", "weapon_2">>
NoLocation == "None"           \* params.get("location") = None

Case(victim, suspects, timeline, murder, bias, connected, murder_weapons, lie_prob) ==
    [victim |-> victim, suspects |-> suspects,
     locations |-> Locations, weapons |-> Weapons,
     timeline |-> timeline, truth_matrix |-> build_truth_matrix(timeline),
     murder |-> murder, n_clues |-> MinClues,
     persons |-> bias,
     location_objects |->
        [i \in 1..Len(Locations) |->
            [id |-> Locations[i], connected_locations |-> connected[Locations[i]]]],
     weapon_objects |->
        [i \in 1..Len(Weapons) |->
            [id |-> Weapons[i], is_murder_weapon |-> Weapons[i] \in murder_weapons]],
     lie_prob |-> lie_prob]

FullyConnected ==
    [l \in Range(Locations) |-> Range(Locations) \ {l}]

\* generate_case, main path: events on whole hours, the victim may act, the
\* weapon of the Murder record is drawn independently of the crime event's
\* object and is the one flagged is_murder_weapon
GeneratedMain ==
    Case("person_0", <<"person_1", "person_2">>,
         <<Event(0, "person_0", "was reading", "location_1", <<>>, FALSE),
           Event(0, "person_2", "was cooking", "location_2", <<>>, FALSE),
           Event(60, "person_1", "was carrying", "location_1", <<"weapon_2">>, FALSE),
           Event(240, "person_1", "committed murder", "location_0", <<"weapon_1">>, TRUE)>>,
         Murder("person_1", 240, "location_0", "weapon_2"),
         [p \in {"person_0", "person_1", "person_2"} |->
            [lying_bias |-> IF p = "person_1" THEN 30 ELSE 60]],
         FullyConnected, {"weapon_2"}, 50)

\* _generate_simple_case: one "was present" event per non-victim at
\* base + i hours + 0..30 minutes, the murder at base + len(persons) hours with
\* the Murder record's weapon, and no weapon flagged is_murder_weapon
GeneratedSimple ==
    Case("person_0", <<"person_1", "person_2">>,
         <<Event(70, "person_1", "was present", "location_2", <<>>, FALSE),
           Event(150, "person_2", "was present", "location_1", <<>>, FALSE),
           Event(180, "person_2", "committed murder", "location_0", <<"weapon_1">>, TRUE)>>,
         Murder("person_2", 180, "location_0", "weapon_1"),
         [p \in {"person_0", "person_1", "person_2"} |->
            [lying_bias |-> IF p = "person_1" THEN 40 ELSE 70]],
         [l \in Range(Locations) |->
            IF l = "location_0" THEN {"location_1", "location_2"}
            ELSE {"location_0"}],
         {}, 30)

\* what generate_case can return: a case that passed validate_case, or the
\* simple case
GeneratedCases == {GeneratedMain, GeneratedSimple}

\* hand-built cases: every timeline of at most MaxEvents events over two
\* actors, two locations and three instants, against one Murder record
EventSpace ==
    {Event(t, a, "was present", l, <<>>, c) :
        t \in {0, 20, 30}, a \in {"person_1", "person_2"},
        l \in {"location_0", "location_1"}, c \in BOOLEAN}

CaseSpace ==
    {Case("person_0", <<"person_1", "person_2">>, tl,
          Murder("person_1", 30, "location_0", "weapon_1"),
          [p \in {"person_0", "person_1", "person_2"} |-> [lying_bias |-> 50]],
          FullyConnected, {"weapon_1"}, 50) :
        tl \in UNION {[1..n -> EventSpace] : n \in 0..MaxEvents}}

-----------------------------------------------------------------------------
(* Knowledge base queries (knowledge_base.py)                              *)

\* index of the first fact of facts that satisfies Hit, 0 if none
FirstIndex(facts, Hit(_)) ==
    IF \E i \in 1..Len(facts) : Hit(facts[i])
    THEN CHOOSE i \in 1..Len(facts) :
            Hit(facts[i]) /\ \A j \in 1..(i - 1) : ~Hit(facts[j])
    ELSE 0

\* the nearest-in-time fact of person with the given predicate: the loop keeps
\* the first fact whose distance is strictly below every earlier one and below
\* 24 hours
NearestFact(facts, person, predicate, time) ==
    LET Mine(f) == f.subject = person /\ f.predicate = predicate /\ f.time # NoTime
        Best(f) == /\ Mine(f)
                   /\ Abs(f.time - time) < DayWindow
                   /\ \A j \in 1..Len(facts) :
                        Mine(facts[j]) => Abs(f.time - time) <= Abs(facts[j].time - time)
        i == FirstIndex(facts, Best)
    IN  IF i = 0 THEN <<>> ELSE <<facts[i]>>

query_location(facts, person, time) ==
    IF time = NoTime THEN <<>> ELSE NearestFact(facts, person, "was_at", time)

query_action(facts, person, time) ==
    IF time = NoTime THEN <<>> ELSE NearestFact(facts, person, "did", time)

\* faulty variant of _query_witnesses: a was_at fact exactly 30 minutes from
\* the queried time still makes a witness
query_witnesses_inclusive(facts, person, time, location) ==
    IF time = NoTime \/ location = NoLocation THEN <<>>
    ELSE LET Hit(f) == /\ f.predicate = "was_at"
                       /\ f.object = location
                       /\ f.time # NoTime
                       /\ Abs(f.time - time) <= ExclusivityWindow
                       /\ f.subject # person
             i == FirstIndex(facts, Hit)
         IN  IF i = 0 THEN <<>>
             ELSE <<Fact(facts[i].subject, "saw", person, time, WitnessCertainty)>>

query_witnesses(facts, person, time, location) ==
    IF time = NoTime \/ location = NoLocation THEN <<>>
    ELSE LET Hit(f) == /\ f.predicate = "was_at"
                       /\ f.object = location
                       /\ f.time # NoTime
                       /\ Abs(f.time - time) < ExclusivityWindow
                       /\ f.subject # person
             i == FirstIndex(facts, Hit)
         IN  IF i = 0 THEN <<>>
             ELSE <<Fact(facts[i].subject, "saw", person, time, WitnessCertainty)>>

\* an interacted_with fact of person within the hour: the loop then evaluates
\* weapon.id on the elements of case.weapons, which are plain identifiers
WeaponHit(facts, person, time) ==
    \E i \in 1..Len(facts) :
        /\ facts[i].subject = person
        /\ facts[i].predicate = "interacted_with"
        /\ facts[i].time # NoTime
        /\ Abs(facts[i].time - time) < WeaponWindow

\* _query_weapon: None, or AttributeError at the first hit when case.weapons
\* is not empty (with no weapons any(...) is False and the scan goes on)
query_weapon(facts, case, person, time) ==
    IF time = NoTime THEN [raised |-> "", fact |-> <<>>]
    ELSE IF WeaponHit(facts, person, time) /\ case.weapons # <<>>
         THEN [raised |-> "AttributeError", fact |-> <<>>]
         ELSE [raised |-> "", fact |-> <<>>]

query_alibi(facts, person, time, location) ==
    IF time = NoTime \/ location = NoLocation THEN <<>>
    ELSE LET person_location == query_location(facts, person, time) IN
         IF person_location # <<>> /\ person_location[1].object # location
         THEN <<Fact(person, "has_alibi",
                     "was_at_" \o person_location[1].object \o "_not_" \o location,
                     time, FullCertainty)>>
         ELSE <<>>

\* query: dispatch on the question type; an unknown type gives None
query(facts, case, person, question_type, params) ==
    CASE question_type = "where_were_you" ->
            [raised |-> "", fact |-> query_location(facts, person, params.time)]
      [] question_type = "who_saw_you" ->
            [raised |-> "",
             fact |-> query_witnesses(facts, person, params.time, params.location)]
      [] question_type = "what_did_you_do" ->
            [raised |-> "", fact |-> query_action(facts, person, params.time)]
      [] question_type = "what_weapon" ->
            query_weapon(facts, case, person, params.time)
      [] question_type = "alibi_check" ->
            [raised |-> "",
             fact |-> query_alibi(facts, person, params.time, params.location)]
      [] OTHER -> [raised |-> "", fact |-> <<>>]

-----------------------------------------------------------------------------
(* Consistency checker (knowledge_base.py)                                 *)

\* faulty variant of the temporal rule: a fact exactly 30 minutes away still
\* counts as a conflict
TemporalConflictInclusive(fact, new_fact) ==
    /\ fact.subject = new_fact.subject
    /\ fact.predicate = "was_at"
    /\ fact.time # NoTime
    /\ fact.object # new_fact.object
    /\ Abs(fact.time - new_fact.time) <= ExclusivityWindow

\* a stored fact that puts the subject of new_fact elsewhere within 30 minutes
TemporalConflict(fact, new_fact) ==
    /\ fact.subject = new_fact.subject
    /\ fact.predicate = "was_at"
    /\ fact.time # NoTime
    /\ fact.object # new_fact.object
    /\ Abs(fact.time - new_fact.time) < ExclusivityWindow

\* faulty variant of check_consistency: the temporal rule is reported once,
\* however many stored facts conflict with the candidate
check_consistency_violations_once(facts, case, new_fact) ==
    (IF /\ new_fact.predicate = "was_at" /\ new_fact.time # NoTime
        /\ \E i \in 1..Len(facts) : TemporalConflict(facts[i], new_fact)
     THEN <<"Temporal inconsistency">> ELSE <<>>)
    \o (IF /\ new_fact.predicate = "is_murderer"
           /\ \E i \in 1..Len(facts) :
                facts[i].predicate = "is_murderer" /\ facts[i].object = "true"
        THEN <<"Uniqueness violation">> ELSE <<>>)
    \o (IF new_fact.predicate = "used_weapon" /\ new_fact.time # NoTime
        THEN LET location_fact == query_location(facts, new_fact.subject, new_fact.time)
             IN IF location_fact = <<>> \/ location_fact[1].object # case.murder.location
                THEN <<"Causality violation">> ELSE <<>>
        ELSE <<>>)

\* check_consistency: the list of violations, in the order they are appended
check_consistency_violations(facts, case, new_fact) ==
    (IF new_fact.predicate = "was_at" /\ new_fact.time # NoTime
     THEN LET Hit(f) == TemporalConflict(f, new_fact)
              hits == SelectSeq(facts, Hit)
          IN  [i \in 1..Len(hits) |-> "Temporal inconsistency"]
     ELSE <<>>)
    \o (IF /\ new_fact.predicate = "is_murderer"
           /\ \E i \in 1..Len(facts) :
                facts[i].predicate = "is_murderer" /\ facts[i].object = "true"
        THEN <<"Uniqueness violation">> ELSE <<>>)
    \o (IF new_fact.predicate = "used_weapon" /\ new_fact.time # NoTime
        THEN LET location_fact == query_location(facts, new_fact.subject, new_fact.time)
             IN IF location_fact = <<>> \/ location_fact[1].object # case.murder.location
                THEN <<"Causality violation">> ELSE <<>>
        ELSE <<>>)

check_consistency(facts, case, new_fact) ==
    Len(check_consistency_violations(facts, case, new_fact)) = 0

\* faulty variant of facts_contradict: two reports of one fact with different
\* certainty count as a contradiction
facts_contradict_on_certainty(fact1, fact2) ==
    /\ fact1.subject = fact2.subject
    /\ fact1.predicate = fact2.predicate
    /\ fact1.time = fact2.time
    /\ (fact1.object # fact2.object \/ fact1.certainty # fact2.certainty)

\* _facts_contradict
facts_contradict(fact1, fact2) ==
    \/ /\ fact1.subject = fact2.subject
       /\ fact1.predicate = fact2.predicate
       /\ fact1.time = fact2.time
       /\ fact1.object # fact2.object
    \/ /\ fact1.subject = fact2.subject
       /\ fact1.predicate = "was_at"
       /\ fact2.predicate = "was_at"
       /\ fact1.time # NoTime
       /\ fact2.time # NoTime
       /\ fact1.object # fact2.object
       /\ Abs(fact1.time - fact2.time) < ExclusivityWindow

get_facts_about(facts, subject, predicate) ==
    LET Hit(f) == f.subject = subject /\ f.predicate = predicate
    IN  SelectSeq(facts, Hit)

-----------------------------------------------------------------------------
(* Deception model (lie_model.py)                                          *)

TopCandidates == 3             \* location_scores[:3], action_scores[:3]
BaseHour == 18                 \* base_time = now.replace(hour=18, minute=0)
Million == 1000000             \* 1.0 in millionths

QuestionThreat(question_type) ==
    CASE question_type = "where_were_you" -> 70
      [] question_type = "who_saw_you" -> 60
      [] question_type = "what_did_you_do" -> 80
      [] question_type = "what_weapon" -> 90
      [] question_type = "alibi_check" -> 80
      [] question_type = "small_talk" -> 10
      [] OTHER -> 50

\* _calculate_threat_level, in percent
calculate_threat_level(case, speaker_id, question_type, params) ==
    LET time_diff == Abs(params.time - case.murder.time)
        by_time == IF params.time = NoTime THEN 0
                   ELSE IF time_diff < 60 THEN 80
                   ELSE IF time_diff < 120 THEN 50
                   ELSE IF time_diff < 180 THEN 20
                   ELSE 0
        by_location == IF params.location # NoLocation
                          /\ params.location = case.murder.location
                       THEN 90 ELSE 0
        threat_score == by_time + by_location + QuestionThreat(question_type)
        scaled == IF speaker_id = case.murder.murderer
                  THEN (threat_score * 3) \div 2 ELSE threat_score
    IN  Min(scaled, 100)

\* _calculate_pressure_level, in percent: the Lie claims of the speaker that
\* carry a contradiction link, five of them saturate
calculate_pressure_level(ledger, speaker_id) ==
    Min((Cardinality({i \in 1..Len(ledger) :
                        /\ ledger[i].speaker = speaker_id
                        /\ ledger[i].truth_status = "lie"
                        /\ Len(ledger[i].contradictions) > 0}) * 100) \div 5,
        100)

\* faulty variant of mode_probabilities: evasion is the complement of truth
\* alone and nothing is normalised
mode_probabilities_unnormalised(bias, threat, base_lie_prob) ==
    LET truth_prob == (100 - bias) * (100 - threat) * (100 - base_lie_prob)
        lie_prob == bias * threat * base_lie_prob
    IN  [truth |-> truth_prob, lie |-> lie_prob, evasion |-> Million - truth_prob]

\* decide, lines 89-99: the three mode probabilities in millionths, from
\* lying_bias, threat level and the classifier's lie probability in percent
mode_probabilities(bias, threat, base_lie_prob) ==
    LET truth_prob == (100 - bias) * (100 - threat) * (100 - base_lie_prob)
        lie_prob == bias * threat * base_lie_prob
        evasion_prob == Million - truth_prob - lie_prob
        total == truth_prob + lie_prob + evasion_prob
        \* x / total, in millionths (total rounded to the thousandth)
        over(x) == (x * 1000) \div (total \div 1000)
    IN  IF total > 0
        THEN [truth |-> over(truth_prob), lie |-> over(lie_prob),
              evasion |-> over(evasion_prob)]
        ELSE [truth |-> truth_prob, lie |-> lie_prob, evasion |-> evasion_prob]

\* decide, lines 101-121: the mode a draw rand of random.random() selects
decide_draw(pr, rand) ==
    IF rand < pr.truth
    THEN [mode |-> "true", score |-> pr.truth, probabilities |-> pr]
    ELSE IF rand < pr.truth + pr.lie
    THEN [mode |-> "lie", score |-> pr.lie, probabilities |-> pr]
    ELSE [mode |-> "evasion", score |-> pr.evasion, probabilities |-> pr]

\* the mode probabilities of a turn; case.lie_prob is what the classifier
\* trained for this case returns (strictly between 0 and 1)
decide_probabilities(case, speaker_id, question_type, params) ==
    mode_probabilities(case.persons[speaker_id].lying_bias,
                       calculate_threat_level(case, speaker_id, question_type, params),
                       case.lie_prob)

\* faulty variant of decide: a fourth outcome, Omission, can be returned
decide_with_omission(case, speaker_id, question_type, params) ==
    LET pr == decide_probabilities(case, speaker_id, question_type, params) IN
    (IF pr.truth > 0 THEN {[mode |-> "true", score |-> pr.truth]} ELSE {})
    \cup (IF pr.lie > 0 /\ pr.truth < Million
          THEN {[mode |-> "lie", score |-> pr.lie]} ELSE {})
    \cup (IF pr.truth + pr.lie < Million
          THEN {[mode |-> "evasion", score |-> pr.evasion],
                [mode |-> "omission", score |-> pr.evasion]} ELSE {})

\* decide: the decisions some draw rand in [0, 1) selects: rand < truth_prob,
\* else rand < truth_prob + lie_prob, else evasion
decide(case, speaker_id, question_type, params) ==
    LET pr == decide_probabilities(case, speaker_id, question_type, params) IN
    (IF pr.truth > 0 THEN {[mode |-> "true", score |-> pr.truth]} ELSE {})
    \cup (IF pr.lie > 0 /\ pr.truth < Million
          THEN {[mode |-> "lie", score |-> pr.lie]} ELSE {})
    \cup (IF pr.truth + pr.lie < Million
          THEN {[mode |-> "evasion", score |-> pr.evasion]} ELSE {})

Clamp(score) == Max(0, Min(100, score))

score_location_plausibility(facts, case, speaker_id, location_id) ==
    LET location_facts == get_facts_about(facts, speaker_id, "was_at")
        person_locations == {location_facts[i].object : i \in 1..Len(location_facts)}
        connected == UNION {case.location_objects[i].connected_locations :
                              i \in {j \in 1..Len(case.location_objects) :
                                        case.location_objects[j].id = location_id}}
    IN  Clamp(50
              + (IF location_id \in person_locations THEN 30 ELSE 0)
              + (IF connected \cap person_locations # {} THEN 20 ELSE 0)
              - (IF location_id = case.murder.location
                    /\ speaker_id # case.murder.murderer THEN 50 ELSE 0))

InnocentActions ==
    <<"reading", "cooking", "cleaning", "sleeping", "watching_tv",
      "working", "exercising", "gardening", "shopping", "visiting_friend">>

score_action_plausibility(facts, speaker_id, action, time) ==
    LET action_facts == get_facts_about(facts, speaker_id, "did")
        hour == (BaseHour + (time \div 60)) % 24
    IN  Clamp(50
              + (IF \E i \in 1..Len(action_facts) : action_facts[i].object = action
                 THEN 30 ELSE 0)
              - (IF action = "sleeping" /\ 6 <= hour /\ hour <= 22 THEN 30
                 ELSE IF action = "cooking" /\ (hour < 6 \/ hour > 22) THEN 20
                 ELSE 0))

\* the candidates that a stable sort by descending score leaves among the
\* first TopCandidates; softmax gives each of them a positive probability
TopOf(pool, Score(_)) ==
    {pool[i] : i \in {k \in 1..Len(pool) :
        Cardinality({j \in 1..Len(pool) :
            \/ Score(pool[j]) > Score(pool[k])
            \/ Score(pool[j]) = Score(pool[k]) /\ j < k}) < TopCandidates}}

\* faulty variant of sample_alternative_location: the true location stays in
\* the pool
sample_any_location(facts, case, speaker_id, time, truth_fact) ==
    IF time = NoTime THEN {}
    ELSE LET available == [i \in 1..Len(case.location_objects) |->
                              case.location_objects[i].id]
             Score(l) == score_location_plausibility(facts, case, speaker_id, l)
         IN  {Fact(speaker_id, "was_at", l, time, LieCertainty) :
                l \in TopOf(available, Score)}

sample_alternative_location(facts, case, speaker_id, time, truth_fact) ==
    IF time = NoTime THEN {}
    ELSE LET Keep(l) == ~(truth_fact # <<>> /\ truth_fact[1].predicate = "was_at"
                          /\ l = truth_fact[1].object)
             available == SelectSeq([i \in 1..Len(case.location_objects) |->
                                        case.location_objects[i].id], Keep)
             Score(l) == score_location_plausibility(facts, case, speaker_id, l)
         IN  {Fact(speaker_id, "was_at", l, time, LieCertainty) :
                l \in TopOf(available, Score)}

sample_alternative_action(facts, speaker_id, time, truth_fact) ==
    IF time = NoTime THEN {}
    ELSE LET Keep(a) == ~(truth_fact # <<>> /\ truth_fact[1].predicate = "did"
                          /\ a = truth_fact[1].object)
             available == SelectSeq(InnocentActions, Keep)
             Score(a) == score_action_plausibility(facts, speaker_id, a, time)
         IN  {Fact(speaker_id, "did", a, time, LieCertainty) :
                a \in TopOf(available, Score)}

sample_alternative_weapon(case, speaker_id, time, truth_fact) ==
    IF time = NoTime THEN {}
    ELSE LET innocent_weapons ==
                {case.weapon_objects[i].id : i \in {j \in 1..Len(case.weapon_objects) :
                    ~case.weapon_objects[j].is_murder_weapon}}
             known == IF truth_fact # <<>> /\ truth_fact[1].predicate = "interacted_with"
                      THEN {truth_fact[1].object} ELSE {}
         IN  {Fact(speaker_id, "interacted_with", w, time, WeaponLieCertainty) :
                w \in innocent_weapons \ known}

\* sample_alternative: the facts one call can return; the empty set is None
sample_alternative(facts, case, speaker_id, question_type, params, truth_fact) ==
    CASE question_type = "where_were_you" ->
            sample_alternative_location(facts, case, speaker_id, params.time, truth_fact)
      [] question_type = "what_did_you_do" ->
            sample_alternative_action(facts, speaker_id, params.time, truth_fact)
      [] question_type = "what_weapon" ->
            sample_alternative_weapon(case, speaker_id, params.time, truth_fact)
      [] OTHER -> {}

-----------------------------------------------------------------------------
(* Claim ledger and response planner (response_planner.py)                 *)

SessionClock == 2000    \* datetime.now() when the session starts, after the timeline

\* datetime.now(): strictly later at every turn
Now(ledger) == SessionClock + Len(ledger)

PlannedAnswer(fact, mode, confidence, samples) ==
    [fact |-> fact, mode |-> mode, confidence |-> confidence, samples |-> samples]

\* faulty variant of plan_truthful_response: no known fact is answered by an
\* evasion without a proposition
plan_truthful_or_evade(truth_fact) ==
    IF truth_fact = <<>>
    THEN PlannedAnswer(<<>>, "evasion", EvasionCertainty, 0)
    ELSE PlannedAnswer(truth_fact, "true", truth_fact[1].certainty, 0)

\* faulty variant of _plan_truthful_response: the answer restates the queried
\* fact without its time
plan_truthful_untimed(truth_fact) ==
    IF truth_fact = <<>>
    THEN PlannedAnswer(<<>>, "true", FullCertainty, 0)
    ELSE PlannedAnswer(<<[truth_fact[1] EXCEPT !.time = NoTime]>>, "true",
                       truth_fact[1].certainty, 0)

plan_truthful_response(truth_fact) ==
    IF truth_fact = <<>>
    THEN PlannedAnswer(<<>>, "true", FullCertainty, 0)
    ELSE PlannedAnswer(truth_fact, "true", truth_fact[1].certainty, 0)

plan_evasion_response(speaker, now, samples) ==
    PlannedAnswer(<<Fact(speaker, "evades", "question", now, EvasionCertainty)>>,
                  "evasion", EvasionCertainty, samples)

plan_omission_response(speaker, now) ==
    PlannedAnswer(<<Fact(speaker, "omits", "information", now, OmissionCertainty)>>,
                  "omission", OmissionCertainty, 0)

\* faulty variant of plan_lie_response: the first sample is emitted unchecked
plan_lie_unchecked(facts, case, speaker, draws, now) ==
    IF draws = <<>> THEN plan_evasion_response(speaker, now, 1)
    ELSE PlannedAnswer(<<draws[1]>>, "lie", draws[1].certainty, 1)

\* faulty variant of _plan_lie_response: a sampler that returned None is
\* called again LieRetries times before the turn is downgraded
plan_lie_retry_on_none(facts, case, speaker, draws, now) ==
    IF draws = <<>> THEN plan_evasion_response(speaker, now, 1 + LieRetries)
    ELSE IF check_consistency(facts, case, draws[1])
    THEN PlannedAnswer(<<draws[1]>>, "lie", draws[1].certainty, 1)
    ELSE LET good == {k \in 2..(1 + LieRetries) :
                        check_consistency(facts, case, draws[k])}
         IN  IF good = {}
             THEN plan_evasion_response(speaker, now, 1 + LieRetries)
             ELSE LET k == CHOOSE i \in good : \A j \in good : i <= j
                  IN  PlannedAnswer(<<draws[k]>>, "lie", draws[k].certainty, k)

\* _plan_lie_response; draws are the facts the successive calls of
\* sample_alternative return (<<>> when the sampler returns None), samples
\* counts the calls made
plan_lie_response(facts, case, speaker, draws, now) ==
    IF draws = <<>> THEN plan_evasion_response(speaker, now, 1)
    ELSE IF check_consistency(facts, case, draws[1])
    THEN PlannedAnswer(<<draws[1]>>, "lie", draws[1].certainty, 1)
    ELSE LET good == {k \in 2..(1 + LieRetries) :
                        check_consistency(facts, case, draws[k])}
         IN  IF good = {}
             THEN plan_evasion_response(speaker, now, 1 + LieRetries)
             ELSE LET k == CHOOSE i \in good : \A j \in good : i <= j
                  IN  PlannedAnswer(<<draws[k]>>, "lie", draws[k].certainty, k)

\* plan_response after the store query: branch on the decided mode, then
\* planned.confidence = decision["score"]
plan_response(facts, case, speaker, truth_fact, decision, draws, now) ==
    LET planned ==
          CASE decision.mode = "true" -> plan_truthful_response(truth_fact)
            [] decision.mode = "lie" ->
                    plan_lie_response(facts, case, speaker, draws, now)
            [] decision.mode = "evasion" -> plan_evasion_response(speaker, now, 0)
            [] OTHER -> plan_omission_response(speaker, now)
    IN  [planned EXCEPT !.confidence = decision.score]

claims_contradict(fact1, fact2) ==
    \/ /\ fact1.subject = fact2.subject
       /\ fact1.predicate = fact2.predicate
       /\ fact1.time = fact2.time
       /\ fact1.object # fact2.object
    \/ /\ fact1.subject = fact2.subject
       /\ fact1.predicate = "was_at"
       /\ fact2.predicate = "was_at"
       /\ fact1.time # NoTime
       /\ fact2.time # NoTime
       /\ fact1.object # fact2.object
       /\ Abs(fact1.time - fact2.time) < ExclusivityWindow

\* faulty variant of _claims_corroborate: a saw fact corroborates every was_at
\* fact of the same time, whoever it is about
claims_corroborate_any_witness(fact1, fact2) ==
    \/ /\ fact1.subject = fact2.subject
       /\ fact1.predicate = fact2.predicate
       /\ fact1.object = fact2.object
       /\ fact1.time = fact2.time
    \/ /\ fact1.predicate = "saw"
       /\ fact2.predicate = "was_at"
       /\ fact1.time = fact2.time

claims_corroborate(fact1, fact2) ==
    \/ /\ fact1.subject = fact2.subject
       /\ fact1.predicate = fact2.predicate
       /\ fact1.object = fact2.object
       /\ fact1.time = fact2.time
    \/ /\ fact1.predicate = "saw"
       /\ fact2.predicate = "was_at"
       /\ fact1.object = fact2.subject
       /\ fact1.time = fact2.time

Claim(speaker, proposition, truth_status, confidence, contradictions, corroborations) ==
    [speaker |-> speaker, proposition |-> proposition, truth_status |-> truth_status,
     confidence |-> confidence, contradictions |-> contradictions,
     corroborations |-> corroborations]

Ids(ledger) == [i \in 1..Len(ledger) |-> i]

\* faulty variant of create_claim: the speaker's own claims are compared too
create_claim_all_speakers(ledger, planned_answer, speaker_id, now) ==
    LET Contra(i) == /\ planned_answer.fact # <<>>
                     /\ claims_contradict(planned_answer.fact[1], ledger[i].proposition)
        Corrob(i) == /\ planned_answer.fact # <<>>
                     /\ ~claims_contradict(planned_answer.fact[1], ledger[i].proposition)
                     /\ claims_corroborate(planned_answer.fact[1], ledger[i].proposition)
    IN  Claim(speaker_id,
              IF planned_answer.fact # <<>> THEN planned_answer.fact[1]
              ELSE Fact(speaker_id, "responded", "to_question", now,
                        planned_answer.confidence),
              planned_answer.mode, planned_answer.confidence,
              SelectSeq(Ids(ledger), Contra), SelectSeq(Ids(ledger), Corrob))

\* _create_claim: the links are collected over the ledger as it is now
create_claim(ledger, planned_answer, speaker_id, now) ==
    LET Contra(i) == /\ planned_answer.fact # <<>>
                     /\ ledger[i].speaker # speaker_id
                     /\ claims_contradict(planned_answer.fact[1], ledger[i].proposition)
        Corrob(i) == /\ planned_answer.fact # <<>>
                     /\ ledger[i].speaker # speaker_id
                     /\ ~claims_contradict(planned_answer.fact[1], ledger[i].proposition)
                     /\ claims_corroborate(planned_answer.fact[1], ledger[i].proposition)
    IN  Claim(speaker_id,
              IF planned_answer.fact # <<>> THEN planned_answer.fact[1]
              ELSE Fact(speaker_id, "responded", "to_question", now,
                        planned_answer.confidence),
              planned_answer.mode, planned_answer.confidence,
              SelectSeq(Ids(ledger), Contra), SelectSeq(Ids(ledger), Corrob))

-----------------------------------------------------------------------------
(* Game engine (game_engine.py)                                            *)

InitialSuspicion == 50         \* suspicion_scores = {suspect: 0.5}

Result(op, outcome, detail) == [op |-> op, outcome |-> outcome, detail |-> detail]

NoDetail == [info |-> "none"]

GameState(case) ==
    [current_suspect |-> <<>>,
     suspicion_scores |-> [p \in Range(case.suspects) |-> InitialSuspicion],
     interrogation_history |-> <<>>,
     game_completed |-> FALSE,
     accusation |-> <<>>]

\* faulty variant of ValidSuspect: every person of the case, the victim too
AnyPerson(case, suspect_id) == suspect_id \in DOMAIN case.persons

\* the ids interrogate_suspect accepts
ValidSuspect(case, suspect_id) == suspect_id \in Range(case.suspects)

\* _update_suspicion_scores, in percent
update_suspicion_scores(scores, claim) ==
    LET by_status == IF claim.truth_status = "lie" THEN 20
                     ELSE IF claim.truth_status = "true" THEN -5 ELSE 0
        by_links == 10 * Len(claim.contradictions)
    IN  [scores EXCEPT ![claim.speaker] = Clamp(@ + by_status + by_links)]

\* faulty variant of record_claim: the older claims a new claim links to are
\* given a link back to it
record_claim_linked(ledger, claim) ==
    LET id == Len(ledger) + 1
        linked(i) == IF i \in Range(claim.contradictions)
                     THEN [ledger[i] EXCEPT !.contradictions = Append(@, id)]
                     ELSE IF i \in Range(claim.corroborations)
                     THEN [ledger[i] EXCEPT !.corroborations = Append(@, id)]
                     ELSE ledger[i]
    IN  Append([i \in 1..Len(ledger) |-> linked(i)], claim)

\* self.current_case.claims[claim.id] = claim
record_claim(ledger, claim) == Append(ledger, claim)

\* faulty variant of DialogueTurns: the suspect's answer only
AnswerTurnOnly(suspect_id, claim, claim_id) ==
    <<[speaker |-> suspect_id, addressee |-> "player",
       truth_status |-> claim.truth_status, claim_id |-> claim_id]>>

\* the two dialogue turns appended for an answered question
DialogueTurns(suspect_id, claim, claim_id) ==
    <<[speaker |-> "player", addressee |-> suspect_id,
       truth_status |-> "true", claim_id |-> 0],
      [speaker |-> suspect_id, addressee |-> "player",
       truth_status |-> claim.truth_status, claim_id |-> claim_id]>>

\* start_new_game with the case generate_case returned
start_new_game(case) ==
    /\ current_case' = <<case>>
    /\ claims' = <<>>
    /\ UNCHANGED probe
    /\ IF ~validate_case(case)
       THEN /\ result' = Result("start_new_game", "ValueError", NoDetail)
            /\ UNCHANGED <<knowledge_base, game_state>>
       ELSE IF ~KnowledgeBase(case).ok
       THEN /\ result' = Result("start_new_game", "ConstraintViolation", NoDetail)
            /\ UNCHANGED <<knowledge_base, game_state>>
       ELSE /\ knowledge_base' = <<KnowledgeBase(case).facts>>
            /\ game_state' = <<GameState(case)>>
            /\ result' = Result("start_new_game", "ok", NoDetail)

NoQuestion == [valid |-> FALSE, intent |-> "unknown"]

TurnDetail(suspect_id, question, queried, truth_fact, decided, draws, samples, claim_id) ==
    [suspect |-> suspect_id, question |-> question, queried |-> queried,
     truth_fact |-> truth_fact, decided |-> decided, draws |-> draws,
     samples |-> samples, claim_id |-> claim_id]

\* the values the calls of sample_alternative made by one Lie turn can return:
\* none when the sampler has no candidate, one when the first is consistent,
\* otherwise the first and the re-samples
Draws(facts, case, alternatives) ==
    (IF alternatives = {} THEN {<<>>} ELSE {})
    \cup {<<a>> : a \in {x \in alternatives : check_consistency(facts, case, x)}}
    \cup {<<a>> \o rest :
            a \in {x \in alternatives : ~check_consistency(facts, case, x)},
            rest \in [1..LieRetries -> alternatives]}

interrogate_suspect(suspect_id, question) ==
    LET case == current_case[1]
        facts == knowledge_base[1]
        gs == game_state[1]
        failed(outcome, queried) ==
            Result("interrogate_suspect", outcome,
                   TurnDetail(suspect_id, NoQuestion, queried, <<>>, "none", <<>>, 0, 0))
    IN
    /\ UNCHANGED <<current_case, knowledge_base, probe>>
    /\ IF game_state = <<>>
       THEN \* raise ValueError("No active game")
            /\ result' = failed("ValueError", FALSE)
            /\ UNCHANGED <<claims, game_state>>
       ELSE IF ~ValidSuspect(case, suspect_id)
       THEN \* raise ValueError("Invalid suspect ID")
            /\ result' = failed("ValueError", FALSE)
            /\ UNCHANGED <<claims, game_state>>
       ELSE IF ~question.valid
       THEN \* claim is None: the returned dict reads the unbound local
            \* contradictions
            /\ game_state' = <<[gs EXCEPT !.current_suspect = <<suspect_id>>]>>
            /\ result' = failed("UnboundLocalError", FALSE)
            /\ UNCHANGED claims
       ELSE LET truth == query(facts, case, suspect_id, question.intent, question.params)
            IN
            IF truth.raised # ""
            THEN /\ game_state' = <<[gs EXCEPT !.current_suspect = <<suspect_id>>]>>
                 /\ result' = failed(truth.raised, FALSE)
                 /\ UNCHANGED claims
            ELSE /\ Len(claims) < MaxTurns
                 /\ \E decision \in decide(case, suspect_id, question.intent, question.params) :
                    \E draws \in (IF decision.mode = "lie"
                                  THEN Draws(facts, case,
                                             sample_alternative(facts, case, suspect_id,
                                                 question.intent, question.params,
                                                 truth.fact))
                                  ELSE {<<>>}) :
                      LET planned == plan_response(facts, case, suspect_id, truth.fact,
                                                   decision, draws, Now(claims))
                          claim == create_claim(claims, planned, suspect_id, Now(claims))
                          claim_id == Len(claims) + 1
                      IN  /\ claims' = record_claim(claims, claim)
                          /\ game_state' =
                               <<[gs EXCEPT
                                   !.current_suspect = <<suspect_id>>,
                                   !.suspicion_scores = update_suspicion_scores(@, claim),
                                   !.interrogation_history =
                                       @ \o DialogueTurns(suspect_id, claim, claim_id)]>>
                          /\ result' =
                               Result("interrogate_suspect", "ok",
                                      TurnDetail(suspect_id, question, TRUE, truth.fact,
                                                 decision.mode, draws, planned.samples,
                                                 claim_id))

\* _calculate_score: reads game_state.accusation["is_correct"]
calculate_score(gs, ledger) ==
    IF gs.accusation = <<>> THEN [raised |-> "TypeError", score |-> 0]
    ELSE LET interrogation_count == Len(gs.interrogation_history) \div 2
             RECURSIVE Links(_)
             Links(l) == IF l = <<>> THEN 0
                         ELSE Len(Head(l).contradictions) + Links(Tail(l))
         IN  [raised |-> "",
              score |-> Max(0, 100
                               - (IF gs.accusation[1].is_correct THEN 0 ELSE 50)
                               + (IF interrogation_count < 10 THEN 20
                                  ELSE IF interrogation_count < 20 THEN 10 ELSE 0)
                               + 5 * Links(ledger))]

Accusation(accused_suspect, weapon, location, is_correct, score, murder) ==
    [accused_suspect |-> accused_suspect, weapon |-> weapon, location |-> location,
     is_correct |-> is_correct, score |-> score,
     correct_answer |-> [murderer |-> murder.murderer, weapon |-> murder.weapon,
                         location |-> murder.location]]

make_accusation(accused_suspect, weapon, location) ==
    /\ UNCHANGED <<current_case, claims, knowledge_base, probe>>
    /\ IF game_state = <<>>
       THEN /\ result' = Result("make_accusation", "ValueError", NoDetail)
            /\ UNCHANGED game_state
       ELSE LET case == current_case[1]
                gs == game_state[1]
                is_correct == /\ accused_suspect = case.murder.murderer
                              /\ weapon = case.murder.weapon
                              /\ location = case.murder.location
                scored == calculate_score(gs, claims)
                accusation == Accusation(accused_suspect, weapon, location,
                                         is_correct, scored.score, case.murder)
            IN  IF scored.raised # ""
                THEN /\ result' = Result("make_accusation", scored.raised, NoDetail)
                     /\ UNCHANGED game_state
                ELSE /\ game_state' = <<[gs EXCEPT !.game_completed = TRUE,
                                                  !.accusation = <<accusation>>]>>
                     /\ result' = Result("make_accusation", "ok", accusation)

-----------------------------------------------------------------------------
(* The engine driven by a player                                           *)

PersonIds == {"person_0", "person_1", "person_2"}

AccusedWeapons == {"weapon_1", "weapon_2"}

AccusedLocations == {"location_0", "location_1"}

Params(time, location) == [time |-> time, location |-> location]

\* what NLPPipeline.process_input and validate_input make of the typed text
Question(valid, intent, params) == [valid |-> valid, intent |-> intent, params |-> params]

Questions ==
    {Question(TRUE, "where_were_you", Params(20, NoLocation)),
     Question(TRUE, "who_saw_you", Params(20, "location_1")),
     Question(TRUE, "what_weapon", Params(20, NoLocation)),
     Question(FALSE, "what_weapon", Params(NoTime, NoLocation))}

NoProbe == [case |-> <<>>, outcome |-> "none", facts |-> <<>>]

Init ==
    /\ current_case = <<>>
    /\ claims = <<>>
    /\ knowledge_base = <<>>
    /\ game_state = <<>>
    /\ result = Result("none", "ok", NoDetail)
    /\ probe = NoProbe

StartNewGame == \E case \in GeneratedCases : start_new_game(case)

InterrogateSuspect ==
    \E suspect_id \in PersonIds, question \in Questions :
        interrogate_suspect(suspect_id, question)

MakeAccusation ==
    \E accused_suspect \in PersonIds, weapon \in AccusedWeapons,
       location \in AccusedLocations :
        make_accusation(accused_suspect, weapon, location)

Next == StartNewGame \/ InterrogateSuspect \/ MakeAccusation

Spec == Init /\ [][Next]_vars

-----------------------------------------------------------------------------
(* Knowledge base construction and game start over hand-built cases        *)

InitKB ==
    /\ current_case = <<>>
    /\ claims = <<>>
    /\ knowledge_base = <<>>
    /\ game_state = <<>>
    /\ result = Result("none", "ok", NoDetail)
    /\ \E case \in CaseSpace :
          probe = [case |-> <<case>>, outcome |-> "pending", facts |-> <<>>,
                   located |-> <<>>]

\* KnowledgeBase(case) called directly on the probed case
ConstructKnowledgeBase ==
    /\ probe.outcome = "pending"
    /\ LET kb == KnowledgeBase(probe.case[1])
       IN  probe' = [probe EXCEPT
                       !.outcome = IF kb.ok THEN "ok" ELSE "ConstraintViolation",
                       !.facts = kb.facts]
    /\ UNCHANGED <<current_case, claims, knowledge_base, game_state, result>>

\* start_new_game with generate_case handing over the probed case
StartProbedGame == start_new_game(probe.case[1])

\* _query_location(murderer, crime time) on the store just built
LocateMurderer ==
    /\ probe.outcome = "ok"
    /\ probe.located = <<>>
    /\ probe' = [probe EXCEPT !.located =
                    <<[fact |-> query_location(probe.facts,
                                               probe.case[1].murder.murderer,
                                               probe.case[1].murder.time)]>>]
    /\ UNCHANGED <<current_case, claims, knowledge_base, game_state, result>>

NextKB == ConstructKnowledgeBase \/ StartProbedGame \/ LocateMurderer

SpecKB == InitKB /\ [][NextKB]_vars

-----------------------------------------------------------------------------
(* The planner's generate_response called on arbitrary planned answers,    *)
(* each returned claim stored in the ledger as the engine stores it        *)

PlannedFacts ==
    {Fact(s, "was_at", l, t, FullCertainty) :
        s \in {"person_1", "person_2"}, l \in {"location_0", "location_1"},
        t \in {0, 20, 60}}
    \cup {Fact("person_0", "saw", "person_1", t, WitnessCertainty) : t \in {0, 20, 60}}

PlannedSpace ==
    {PlannedAnswer(<<f>>, "true", f.certainty, 0) : f \in PlannedFacts}
    \cup {PlannedAnswer(<<>>, "true", FullCertainty, 0)}

InitPlanner ==
    /\ current_case = <<GeneratedMain>>
    /\ claims = <<>>
    /\ knowledge_base = <<KnowledgeBase(GeneratedMain).facts>>
    /\ game_state = <<>>
    /\ result = Result("none", "ok", NoDetail)
    /\ probe = NoProbe

generate_response(planned_answer, speaker_id) ==
    /\ Len(claims) < MaxTurns
    /\ claims' = record_claim(claims,
                     create_claim(claims, planned_answer, speaker_id, Now(claims)))
    /\ result' = Result("generate_response", "ok",
                        [planned |-> planned_answer, speaker |-> speaker_id])
    /\ UNCHANGED <<current_case, knowledge_base, game_state, probe>>

GenerateResponse ==
    \E planned_answer \in PlannedSpace, speaker_id \in {"person_1", "person_2"} :
        generate_response(planned_answer, speaker_id)

NextPlanner == GenerateResponse

SpecPlanner == InitPlanner /\ [][NextPlanner]_vars

-----------------------------------------------------------------------------
(* Properties                                                              *)

Active == game_state # <<>>

History == IF Active THEN game_state[1].interrogation_history ELSE <<>>

\* the claim the last interrogation turn recorded
LastClaim == claims[result.detail.claim_id]

\* the last call was an interrogation whose fact-store query returned no fact
QueriedNothing ==
    /\ result.op = "interrogate_suspect"
    /\ result.detail.queried
    /\ result.detail.truth_fact = <<>>

\* C1: on an active session make_accusation completes, marks the game
\* completed, and returns is_correct true exactly when the three arguments equal
\* the Murder record's murderer, weapon and location, with the correct answer.
C1_AccusationCompletes ==
    (result.op = "make_accusation" /\ Active) =>
        /\ result.outcome = "ok"
        /\ game_state[1].game_completed
        /\ result.detail.is_correct =
              (/\ result.detail.accused_suspect = current_case[1].murder.murderer
               /\ result.detail.weapon = current_case[1].murder.weapon
               /\ result.detail.location = current_case[1].murder.location)
        /\ result.detail.correct_answer.murderer = current_case[1].murder.murderer

\* C2: on an active session, interrogating a suspect of the suspects list
\* always returns a response, whatever the question text and the decided mode;
\* it never ends in an internal failure.
C2_InterrogationReturns ==
    (/\ result.op = "interrogate_suspect"
     /\ Active
     /\ result.detail.suspect \in Range(current_case[1].suspects))
        => result.outcome = "ok"

\* C3: interrogate_suspect and make_accusation without an active session, and
\* interrogate_suspect with an id outside the suspects list (the victim
\* included), fail with an explicit error and leave the ledger, the history,
\* the suspicion scores and current_suspect unchanged.
C3_UsageErrorsRejected ==
    [][(/\ result'.op \in {"interrogate_suspect", "make_accusation"}
        /\ \/ ~Active
           \/ /\ result'.op = "interrogate_suspect"
              /\ result'.detail.suspect \notin Range(current_case[1].suspects))
       => (/\ result'.outcome = "ValueError"
           /\ claims' = claims
           /\ game_state' = game_state)]_vars

C3_Witness ==
    /\ Active
    /\ result.op = "interrogate_suspect"
    /\ result.outcome = "ValueError"
    /\ result.detail.suspect = current_case[1].victim
    /\ Len(claims) > 0
    /\ game_state[1].current_suspect # <<>>

\* C4: within one session the ledger is append-only: every call leaves each
\* claim already in the ledger in place with the same fields, so a later claim
\* never adds a link to an older one.
C4_LedgerAppendOnly ==
    [][result'.op # "start_new_game"
       => (/\ Len(claims') >= Len(claims)
           /\ \A i \in 1..Len(claims) : claims'[i] = claims[i])]_vars

C4_Witness ==
    /\ Len(claims) = 2
    /\ claims[2].contradictions = <<1>>
    /\ claims[1].contradictions = <<>>
    /\ claims[1].corroborations = <<>>

\* C5: an interrogate_suspect call that returns normally appends exactly one
\* claim and two history entries, a failing call appends none, and the history
\* is always twice as long as the ledger.
C5_OneClaimTwoTurns ==
    [][LET before == History
           after == IF game_state' # <<>>
                    THEN game_state'[1].interrogation_history ELSE <<>>
       IN  /\ Len(after) = 2 * Len(claims')
           /\ (result'.op = "interrogate_suspect" /\ result'.outcome = "ok")
                => /\ Len(claims') = Len(claims) + 1
                   /\ Len(after) = Len(before) + 2
           /\ (result'.op = "interrogate_suspect" /\ result'.outcome # "ok")
                => /\ claims' = claims
                   /\ after = before]_vars

C5_Witness ==
    /\ result.op = "interrogate_suspect"
    /\ result.outcome = "ok"
    /\ Len(claims) = 2
    /\ Len(History) = 4

\* prior claim j and claim i assert was_at for one subject at one time with
\* different objects, and their speakers differ
SamePlaceDispute(i, j) ==
    /\ j < i
    /\ claims[i].speaker # claims[j].speaker
    /\ claims[i].proposition.predicate = "was_at"
    /\ claims[j].proposition.predicate = "was_at"
    /\ claims[i].proposition.subject = claims[j].proposition.subject
    /\ claims[i].proposition.time = claims[j].proposition.time
    /\ claims[i].proposition.object # claims[j].proposition.object

C7_LieBoundedAndConsistent ==
    (result.op = "interrogate_suspect" /\ result.detail.decided = "lie") =>
        /\ result.outcome = "ok"
        /\ result.detail.samples \in 1..(1 + LieRetries)
        /\ \/ /\ LastClaim.truth_status = "lie"
              /\ check_consistency(knowledge_base[1], current_case[1],
                                   LastClaim.proposition)
           \/ /\ LastClaim.truth_status = "evasion"
              /\ LastClaim.proposition.predicate = "evades"

C7_Witness ==
    /\ result.op = "interrogate_suspect"
    /\ result.detail.decided = "lie"
    /\ result.detail.samples = 1 + LieRetries
    /\ LastClaim.truth_status = "evasion"

\* C8 as stated: when the fact-store query of a turn returns no fact, the turn
\* is not an error and its claim is True and carries the 'no information'
\* placeholder, never a Lie or an Evasion.
C8_NoFactAlwaysTruthful ==
    QueriedNothing =>
        /\ result.outcome = "ok"
        /\ LastClaim.truth_status = "true"
        /\ LastClaim.proposition.predicate = "responded"

\* C8 amended: when the fact-store query of a turn returns no fact, the turn is
\* not an error; the claim is True exactly when the decided mode is Truth, and
\* then carries the 'no information' placeholder; a turn decided as Lie or
\* Evasion is recorded as a Lie (only if decided Lie) or an Evasion.
C8_NoFactTruthfulWhenTruthDecided ==
    QueriedNothing =>
        /\ result.outcome = "ok"
        /\ (result.detail.decided = "true") = (LastClaim.truth_status = "true")
        /\ LastClaim.truth_status = "true" =>
              /\ LastClaim.proposition.subject = LastClaim.speaker
              /\ LastClaim.proposition.predicate = "responded"
              /\ LastClaim.proposition.object = "to_question"
        /\ LastClaim.truth_status = "lie" => result.detail.decided = "lie"
        /\ LastClaim.truth_status \in {"true", "lie", "evasion"}

C8_Witness ==
    /\ QueriedNothing
    /\ result.detail.question.intent = "what_weapon"
    /\ result.detail.decided = "true"
    /\ LastClaim.truth_status = "true"
    /\ LastClaim.proposition.predicate = "responded"

\* the first is_crime event of the timeline differs from the Murder record in
\* actor, location or time
CrimeEventDiffers(case) ==
    \E i \in 1..Len(case.timeline) :
        /\ case.timeline[i].is_crime
        /\ \A j \in 1..(i - 1) : ~case.timeline[j].is_crime
        /\ \/ case.timeline[i].actor # case.murder.murderer
           \/ case.timeline[i].location # case.murder.location
           \/ case.timeline[i].time # case.murder.time

\* two events of one actor at different locations less than 30 minutes apart
SameActorTwoPlaces(case) ==
    \E i, j \in 1..Len(case.timeline) :
        /\ i # j
        /\ case.timeline[i].actor = case.timeline[j].actor
        /\ case.timeline[i].location # case.timeline[j].location
        /\ Abs(case.timeline[i].time - case.timeline[j].time) < 30

C10_ExactlyOneCrimeEvent ==
    probe.outcome = "ok" =>
        Cardinality({i \in 1..Len(probe.case[1].timeline) :
                        probe.case[1].timeline[i].is_crime}) = 1

-----------------------------------------------------------------------------
(* The contradiction and corroboration tests on pairs of facts             *)

\* the engine state no pure-function run touches
engine == <<current_case, claims, knowledge_base, game_state, result>>

EngineIdle ==
    /\ current_case = <<>>
    /\ claims = <<>>
    /\ knowledge_base = <<>>
    /\ game_state = <<>>
    /\ result = Result("none", "ok", NoDetail)

FactSpace ==
    {Fact(s, p, o, t, c) :
        s \in {"person_1", "person_2"}, p \in {"was_at", "saw"},
        o \in {"location_0", "location_1", "person_1"}, t \in {NoTime, 0, 20, 30},
        c \in {LieCertainty, FullCertainty}}

InitFacts ==
    /\ EngineIdle
    /\ \E fact1 \in FactSpace, fact2 \in FactSpace :
          probe = [fact1 |-> fact1, fact2 |-> fact2, outcome |-> "pending"]

\* the tests applied to the pair, the corroboration test in both argument orders
CompareFacts ==
    /\ probe.outcome = "pending"
    /\ probe' = [fact1 |-> probe.fact1, fact2 |-> probe.fact2, outcome |-> "done",
                 facts_contradict |-> facts_contradict(probe.fact1, probe.fact2),
                 claims_contradict |-> claims_contradict(probe.fact1, probe.fact2),
                 claims_corroborate |-> claims_corroborate(probe.fact1, probe.fact2),
                 corroborate_swapped |-> claims_corroborate(probe.fact2, probe.fact1)]
    /\ UNCHANGED engine

NextFacts == CompareFacts

SpecFacts == InitFacts /\ [][NextFacts]_vars

\* C11: two facts with identical (subject, predicate, object, time), whatever
\* their certainty, do not contradict under the store's test nor under the
\* planner's, and corroborate; and the two contradiction tests agree on every
\* pair of facts.
C11_SameFactCorroborates ==
    probe.outcome = "done" =>
        /\ probe.facts_contradict = probe.claims_contradict
        /\ (/\ probe.fact1.subject = probe.fact2.subject
            /\ probe.fact1.predicate = probe.fact2.predicate
            /\ probe.fact1.object = probe.fact2.object
            /\ probe.fact1.time = probe.fact2.time)
              => /\ ~probe.facts_contradict
                 /\ ~probe.claims_contradict
                 /\ probe.claims_corroborate

C11_Witness ==
    /\ probe.outcome = "done"
    /\ FactEq(probe.fact1, probe.fact2)
    /\ probe.fact1.certainty # probe.fact2.certainty
    /\ probe.fact1.predicate = "was_at"
    /\ probe.claims_corroborate
    /\ ~probe.facts_contradict

-----------------------------------------------------------------------------
(* decide() on arbitrary features, drawing from a seeded random stream     *)

MaxCalls == 3          \* decide() calls made in one run

Percents == {0, 30, 70, 100}

Rands == {0, 200000, 600000}

\* faulty variant of seed_random: seeding leaves the stream where it is
seed_ignored(rng) == rng

\* random.seed(seed): the stream restarts at its first draw
seed_random(rng) == [rng EXCEPT !.pos = 0]

\* random.random(): the next draw of the stream
random_random(rng) ==
    [value |-> rng.stream[rng.pos], rng |-> [rng EXCEPT !.pos = @ + 1]]

InitDecide ==
    /\ EngineIdle
    /\ \E bias \in Percents, threat \in Percents, lie_prob \in Percents,
          stream \in [0..(MaxCalls - 1) -> Rands] :
          probe = [bias |-> bias, threat |-> threat, lie_prob |-> lie_prob,
                   rng |-> [stream |-> stream, pos |-> 0],
                   since_seed |-> 0, calls |-> <<>>]

\* the stream is seeded again with the same seed
SeedRandom ==
    /\ probe' = [probe EXCEPT !.rng = seed_random(@), !.since_seed = 0]
    /\ UNCHANGED engine

\* decide() on the probed features; since_seed counts the draws made since
\* the stream was last seeded
DecideCall ==
    /\ Len(probe.calls) < MaxCalls
    /\ probe.rng.pos < MaxCalls
    /\ LET draw == random_random(probe.rng)
           output == decide_draw(mode_probabilities(probe.bias, probe.threat,
                                                    probe.lie_prob), draw.value)
       IN  probe' = [probe EXCEPT
                       !.rng = draw.rng,
                       !.since_seed = @ + 1,
                       !.calls = Append(@, [since_seed |-> probe.since_seed,
                                            rand |-> draw.value,
                                            output |-> output])]
    /\ UNCHANGED engine

NextDecide == SeedRandom \/ DecideCall

SpecDecide == InitDecide /\ [][NextDecide]_vars

\* C12: whatever lying_bias, threat level and base lie likelihood in [0, 1],
\* the truth, lie and evasion probabilities decide() returns are each >= 0 and
\* sum to 1, and the mode is truth, lie or evasion according to where the draw
\* falls in the cumulative distribution taken in that order.
C12_ModeDistribution ==
    \A i \in 1..Len(probe.calls) :
        LET call == probe.calls[i]
            pr == call.output.probabilities
        IN  /\ pr.truth >= 0 /\ pr.lie >= 0 /\ pr.evasion >= 0
            /\ pr.truth + pr.lie + pr.evasion = 1000000
            /\ (call.output.mode = "true") = (call.rand < pr.truth)
            /\ (call.output.mode = "lie") =
                  (pr.truth <= call.rand /\ call.rand < pr.truth + pr.lie)
            /\ (call.output.mode = "evasion") = (pr.truth + pr.lie <= call.rand)
            /\ call.output.score =
                  (CASE call.output.mode = "true" -> pr.truth
                     [] call.output.mode = "lie" -> pr.lie
                     [] OTHER -> pr.evasion)

C12_Witness ==
    \E i \in 1..Len(probe.calls) :
        /\ probe.calls[i].output.mode = "lie"
        /\ probe.calls[i].output.probabilities.truth > 0
        /\ probe.calls[i].output.probabilities.lie > 0
        /\ probe.calls[i].output.probabilities.evasion > 0

C13_LieAvoidsTrueLocation ==
    (/\ result.op = "interrogate_suspect"
     /\ result.outcome = "ok"
     /\ result.detail.question.intent = "where_were_you"
     /\ result.detail.truth_fact # <<>>)
        => /\ \A k \in 1..Len(result.detail.draws) :
                 /\ result.detail.draws[k].predicate = "was_at"
                 /\ result.detail.draws[k].object # result.detail.truth_fact[1].object
           /\ LastClaim.truth_status = "lie"
                 => LastClaim.proposition.object # result.detail.truth_fact[1].object

C13_Witness ==
    /\ result.op = "interrogate_suspect"
    /\ result.detail.question.intent = "where_were_you"
    /\ result.detail.truth_fact # <<>>
    /\ result.detail.truth_fact[1].predicate = "was_at"
    /\ result.detail.decided = "lie"
    /\ Len(result.detail.draws) = 1 + LieRetries
    /\ result.detail.draws[1] # result.detail.draws[2]

\* C15: on every case KnowledgeBase construction accepts, the location query
\* for the murderer at the crime time returns a was_at fact whose subject is
\* the murderer, whose object is the crime location and whose certainty is 1.0.
C15_MurdererAtCrimeScene ==
    probe.located # <<>> =>
        /\ probe.located[1].fact # <<>>
        /\ probe.located[1].fact[1].subject = probe.case[1].murder.murderer
        /\ probe.located[1].fact[1].predicate = "was_at"
        /\ probe.located[1].fact[1].object = probe.case[1].murder.location
        /\ probe.located[1].fact[1].certainty = 1000000

\* the same on the accepted cases that have a crime event
C15_CrimeEventLocated ==
    /\ probe.located # <<>>
    /\ \E i \in 1..Len(probe.case[1].timeline) : probe.case[1].timeline[i].is_crime
    /\ Len(probe.case[1].timeline) = 2
    /\ probe.located[1].fact # <<>>
    /\ probe.located[1].fact[1].object = probe.case[1].murder.location

\* the timeline of the case under construction has a crime event
HasCrimeEvent ==
    \E i \in 1..Len(probe.case[1].timeline) : probe.case[1].timeline[i].is_crime

\* C15 on the accepted cases whose timeline has a crime event
C15_HoldsWithCrimeEvent == HasCrimeEvent => C15_MurdererAtCrimeScene

-----------------------------------------------------------------------------
(* The fact store under add_fact, the queries and check_consistency         *)

MaxStored == 2

\* a case the constructor accepts: one crime event, matching the Murder record
StoreCase ==
    Case("person_0", <<"person_1", "person_2">>,
         <<Event(0, "person_2", "committed murder", "location_0", <<"weapon_1">>, TRUE)>>,
         Murder("person_2", 0, "location_0", "weapon_1"),
         [p \in {"person_0", "person_1", "person_2"} |-> [lying_bias |-> 50]],
         FullyConnected, {"weapon_1"}, 50)

\* facts handed to add_fact
StoreFacts ==
    {Fact("person_1", "was_at", l, t, FullCertainty) :
        l \in {"location_0", "location_1"}, t \in {NoTime, 0, 20, 1500}}
    \cup {Fact("person_1", "interacted_with", o, 0, FullCertainty) :
            o \in {"weapon_1", "notebook"}}
    \cup {Fact("person_2", "is_murderer", "true", NoTime, FullCertainty),
          Fact("person_1", "is_murderer", "false", NoTime, FullCertainty)}

\* candidates handed to check_consistency
Candidates ==
    {Fact("person_1", "was_at", l, t, LieCertainty) :
        l \in {"location_0", "location_1"}, t \in {NoTime, 0, 29, 50}}
    \cup {Fact("person_1", "is_murderer", o, NoTime, LieCertainty) :
            o \in {"true", "false"}}
    \cup {Fact("person_1", "used_weapon", "weapon_1", t, LieCertainty) :
            t \in {NoTime, 0}}

QueryTimes == {NoTime, 0, 10, 30, 1450}

NoAnswer == [op |-> "none"]

InitStore ==
    /\ EngineIdle
    /\ probe = [facts |-> KnowledgeBase(StoreCase).facts, added |-> 0,
                answer |-> NoAnswer]

AddFact ==
    /\ probe.added < MaxStored
    /\ \E fact \in StoreFacts :
          probe' = [facts |-> add_fact(probe.facts, fact),
                    added |-> probe.added + 1, answer |-> NoAnswer]
    /\ UNCHANGED engine

QueryLocation ==
    /\ \E person \in {"person_1", "person_2"}, time \in QueryTimes :
          probe' = [probe EXCEPT !.answer =
                      [op |-> "query_location", person |-> person, time |-> time,
                       fact |-> query_location(probe.facts, person, time)]]
    /\ UNCHANGED engine

QueryWeapon ==
    /\ \E person \in {"person_1", "person_2"}, time \in QueryTimes :
          LET found == query_weapon(probe.facts, StoreCase, person, time)
          IN  probe' = [probe EXCEPT !.answer =
                          [op |-> "query_weapon", person |-> person, time |-> time,
                           raised |-> found.raised, fact |-> found.fact]]
    /\ UNCHANGED engine

CheckConsistency ==
    /\ \E new_fact \in Candidates :
          probe' = [probe EXCEPT !.answer =
                      [op |-> "check_consistency", new_fact |-> new_fact,
                       ok |-> check_consistency(probe.facts, StoreCase, new_fact),
                       violations |->
                          check_consistency_violations(probe.facts, StoreCase, new_fact)]]
    /\ UNCHANGED engine

QueryWitnesses ==
    /\ \E person \in {"person_1", "person_2"}, time \in QueryTimes,
          location \in {"location_0", "location_1", NoLocation} :
          probe' = [probe EXCEPT !.answer =
                      [op |-> "query_witnesses", person |-> person, time |-> time,
                       location |-> location,
                       fact |-> query_witnesses(probe.facts, person, time, location)]]
    /\ UNCHANGED engine

NextStore ==
    AddFact \/ QueryLocation \/ QueryWeapon \/ CheckConsistency \/ QueryWitnesses

SpecStore == InitStore /\ [][NextStore]_vars

\* the store holds a timed was_at fact of the candidate's subject at another
\* location less than 30 minutes from the candidate's time
OtherPlaceNearby(new_fact) ==
    \E i \in 1..Len(probe.facts) :
        /\ probe.facts[i].subject = new_fact.subject
        /\ probe.facts[i].predicate = "was_at"
        /\ probe.facts[i].time # NoTime
        /\ probe.facts[i].object # new_fact.object
        /\ probe.facts[i].time - new_fact.time < 30
        /\ new_fact.time - probe.facts[i].time < 30

\* C16: check_consistency of a timed was_at candidate returns ok = false with
\* a temporal-inconsistency violation whenever the store holds a was_at fact
\* of the same subject at a different location less than 30 minutes away (the
\* same instant included), and no temporal violation when it holds none.
C16_TemporalExclusivity ==
    (/\ probe.answer.op = "check_consistency"
     /\ probe.answer.new_fact.predicate = "was_at"
     /\ probe.answer.new_fact.time # NoTime)
        => IF OtherPlaceNearby(probe.answer.new_fact)
           THEN /\ ~probe.answer.ok
                /\ \E k \in 1..Len(probe.answer.violations) :
                      probe.answer.violations[k] = "Temporal inconsistency"
           ELSE \A k \in 1..Len(probe.answer.violations) :
                      probe.answer.violations[k] # "Temporal inconsistency"

\* a candidate checked against a store holding the same subject at another
\* location at the same instant
C16_Witness ==
    /\ probe.answer.op = "check_consistency"
    /\ probe.answer.new_fact.time = 0
    /\ ~probe.answer.ok
    /\ \E i \in 1..Len(probe.facts) :
          /\ probe.facts[i].subject = "person_1"
          /\ probe.facts[i].predicate = "was_at"
          /\ probe.facts[i].time = 0
          /\ probe.facts[i].object # probe.answer.new_fact.object


\* C17: after a turn that emitted a Lie claim the fact store contains the
\* fabricated fact, so that later consistency checks and plausibility scores
\* see it.
C17_AcceptedLieStored ==
    (/\ result.op = "interrogate_suspect" /\ result.outcome = "ok"
     /\ LastClaim.truth_status = "lie")
        => \E i \in 1..Len(knowledge_base[1]) :
              FactEq(knowledge_base[1][i], LastClaim.proposition)

\* the store of a session is the store start_new_game built, whatever the
\* turns taken since
C17_StoreNeverGrows ==
    Active => knowledge_base[1] = KnowledgeBase(current_case[1]).facts

\* a Lie claim was emitted and the store still is the one start_new_game built
C17_LieNotStored ==
    /\ result.op = "interrogate_suspect" /\ result.outcome = "ok"
    /\ LastClaim.truth_status = "lie"
    /\ knowledge_base[1] = KnowledgeBase(current_case[1]).facts


\* the last call was a turn on which decide() returned Lie
LieTurn ==
    /\ result.op = "interrogate_suspect" /\ result.outcome = "ok"
    /\ result.detail.decided = "lie"

\* C18 as stated: when the first call of the sampler in a Lie turn yields no
\* candidate, the planner samples again, up to 3 more times, before it
\* downgrades the turn to Evasion.
C18_ResamplesAfterNoCandidate ==
    (LieTurn /\ result.detail.draws = <<>>)
        => result.detail.samples \in 2..(1 + LieRetries)

\* C18, amended: when the first call of the sampler yields no candidate the
\* turn is downgraded to Evasion at once, after that single call; the planner
\* samples again, up to 3 more times, only when the first candidate fails the
\* consistency check, and then downgrades to Evasion only if none of the
\* re-sampled candidates is consistent.
C18_NoCandidateEvadesAtOnce ==
    LieTurn =>
        LET facts == knowledge_base[1]
            case == current_case[1]
            draws == result.detail.draws
        IN  /\ draws = <<>> =>
                  /\ result.detail.samples = 1
                  /\ LastClaim.truth_status = "evasion"
            /\ result.detail.samples > 1 =>
                  /\ draws # <<>>
                  /\ ~check_consistency(facts, case, draws[1])
                  /\ result.detail.samples <= 1 + LieRetries
            /\ draws # <<>> =>
                  ((LastClaim.truth_status = "evasion")
                      <=> \A k \in 1..Len(draws) :
                             ~check_consistency(facts, case, draws[k]))

\* a Lie turn whose sampler had no candidate, downgraded after one call
C18_Witness ==
    /\ LieTurn
    /\ result.detail.draws = <<>>
    /\ result.detail.samples = 1
    /\ LastClaim.truth_status = "evasion"


\* the positions of the timed was_at facts of person in the store
TimedLocations(person) ==
    {i \in 1..Len(probe.facts) :
        /\ probe.facts[i].subject = person
        /\ probe.facts[i].predicate = "was_at"
        /\ probe.facts[i].time # NoTime}

\* the answer of a location query is one of the facts at positions among and
\* no fact of the person is nearer to the queried time
NearestAmong(among) ==
    /\ probe.answer.fact # <<>>
    /\ \E i \in among : probe.facts[i] = probe.answer.fact[1]
    /\ \A j \in TimedLocations(probe.answer.person) :
          Abs(probe.answer.fact[1].time - probe.answer.time)
              <= Abs(probe.facts[j].time - probe.answer.time)

\* C19: the location query returns a was_at fact of the person at minimal
\* absolute distance from the queried time among all the person's timed was_at
\* facts, and returns none only when the person has no such fact or no time is
\* given, however far the nearest fact is.
C19_NearestLocationAnyDistance ==
    probe.answer.op = "query_location" =>
        IF probe.answer.time = NoTime \/ TimedLocations(probe.answer.person) = {}
        THEN probe.answer.fact = <<>>
        ELSE NearestAmong(TimedLocations(probe.answer.person))

\* the same with the 24 hours of the code: none when no fact of the person is
\* less than 24 hours from the queried time, the nearest fact otherwise
C19_NearestWithinDay ==
    probe.answer.op = "query_location" =>
        LET near == {i \in TimedLocations(probe.answer.person) :
                        Abs(probe.facts[i].time - probe.answer.time) < 1440}
        IN  IF probe.answer.time = NoTime \/ near = {}
            THEN probe.answer.fact = <<>>
            ELSE NearestAmong(near)

\* a query 24 hours or more from every was_at fact of the person returned none
C19_FarFactMissed ==
    /\ probe.answer.op = "query_location"
    /\ probe.answer.time # NoTime
    /\ TimedLocations(probe.answer.person) # {}
    /\ probe.answer.fact = <<>>


\* the positions of the interacted_with facts of person less than one hour
\* from time whose object is one of the case's weapon identifiers
WeaponFacts(person, time) ==
    {i \in 1..Len(probe.facts) :
        /\ probe.facts[i].subject = person
        /\ probe.facts[i].predicate = "interacted_with"
        /\ probe.facts[i].time # NoTime
        /\ Abs(probe.facts[i].time - time) < 60
        /\ probe.facts[i].object \in Range(StoreCase.weapons)}

\* C20: the weapon query never fails; it returns an interacted_with fact of
\* the person within one hour of the queried time whose object is a weapon of
\* the case whenever the store holds one, and none otherwise.
C20_WeaponQueryAnswers ==
    probe.answer.op = "query_weapon" =>
        /\ probe.answer.raised = ""
        /\ IF probe.answer.time # NoTime
              /\ WeaponFacts(probe.answer.person, probe.answer.time) # {}
           THEN /\ probe.answer.fact # <<>>
                /\ \E i \in WeaponFacts(probe.answer.person, probe.answer.time) :
                      probe.facts[i] = probe.answer.fact[1]
           ELSE probe.answer.fact = <<>>

\* the weapon query never returns a fact: it fails when the person has an
\* interacted_with fact within the hour, whatever its object, and returns none
\* otherwise
C20_WeaponQueryFailsOnHit ==
    probe.answer.op = "query_weapon" =>
        /\ probe.answer.fact = <<>>
        /\ (probe.answer.raised = "AttributeError")
              <=> /\ probe.answer.time # NoTime
                  /\ \E i \in 1..Len(probe.facts) :
                        /\ probe.facts[i].subject = probe.answer.person
                        /\ probe.facts[i].predicate = "interacted_with"
                        /\ probe.facts[i].time # NoTime
                        /\ Abs(probe.facts[i].time - probe.answer.time) < 60

\* a weapon query failed although the only interaction of the person within
\* the hour is with an object that is no weapon
C20_FailsOnNonWeapon ==
    /\ probe.answer.op = "query_weapon"
    /\ probe.answer.raised = "AttributeError"
    /\ WeaponFacts(probe.answer.person, probe.answer.time) = {}


\* the positions of the timed was_at facts at the queried location of a
\* subject other than the queried person
OthersThere ==
    {i \in 1..Len(probe.facts) :
        /\ probe.facts[i].predicate = "was_at"
        /\ probe.facts[i].object = probe.answer.location
        /\ probe.facts[i].time # NoTime
        /\ probe.facts[i].subject # probe.answer.person}

\* the answer is the saw fact synthesized from one of the facts at positions
\* among when there is one, and none otherwise
WitnessFrom(among) ==
    IF probe.answer.time # NoTime /\ probe.answer.location # NoLocation /\ among # {}
    THEN /\ probe.answer.fact # <<>>
         /\ probe.answer.fact[1].predicate = "saw"
         /\ probe.answer.fact[1].object = probe.answer.person
         /\ probe.answer.fact[1].time = probe.answer.time
         /\ probe.answer.fact[1].certainty = 800000
         /\ probe.answer.fact[1].subject # probe.answer.person
         /\ \E i \in among : probe.facts[i].subject = probe.answer.fact[1].subject
    ELSE probe.answer.fact = <<>>

\* C21 as stated: the witness query returns a synthesized saw fact (the
\* witness as subject, the person as object, the queried time, certainty 0.8)
\* if and only if a subject other than the person has a was_at fact at the
\* location at most 30 minutes from the queried time.
C21_WitnessAtMostHalfHour ==
    probe.answer.op = "query_witnesses" =>
        WitnessFrom({i \in OthersThere :
                        /\ probe.facts[i].time - probe.answer.time <= 30
                        /\ probe.answer.time - probe.facts[i].time <= 30})

\* C21, amended: the same with a was_at fact less than 30 minutes from the
\* queried time; a fact exactly 30 minutes away makes no witness.
C21_WitnessWithinHalfHour ==
    probe.answer.op = "query_witnesses" =>
        WitnessFrom({i \in OthersThere :
                        /\ probe.facts[i].time - probe.answer.time < 30
                        /\ probe.answer.time - probe.facts[i].time < 30})

\* two subjects at the queried location, one of them the person: the other is
\* named as witness
C21_Witness ==
    /\ probe.answer.op = "query_witnesses"
    /\ probe.answer.person = "person_1"
    /\ probe.answer.time = 10
    /\ probe.answer.fact # <<>>
    /\ probe.answer.fact[1].subject = "person_2"
    /\ \E i \in 1..Len(probe.facts) :
          /\ probe.facts[i].subject = "person_1"
          /\ probe.facts[i].predicate = "was_at"
          /\ probe.facts[i].object = probe.answer.location
          /\ probe.facts[i].time = 0


\* C22 as stated: check_consistency returns ok = true exactly when its violation list is
\* empty, and a rejection carries one violation string per rule broken
\* (temporal, uniqueness, causality): no rule is reported twice, so at most
\* three strings, however many stored facts conflict with the candidate.
C22_OneViolationPerRule ==
    probe.answer.op = "check_consistency" =>
        /\ probe.answer.ok <=> (probe.answer.violations = <<>>)
        /\ Len(probe.answer.violations) <= 3
        /\ \A j, k \in 1..Len(probe.answer.violations) :
              probe.answer.violations[j] = probe.answer.violations[k] => j = k

\* C22, amended: ok = true exactly when the violation list is empty; the list
\* holds one temporal string per stored fact that conflicts with the candidate
\* (a fact the store holds twice is reported twice) and at most one uniqueness
\* and one causality string.
C22_OneViolationPerConflict ==
    probe.answer.op = "check_consistency" =>
        /\ probe.answer.ok <=> (probe.answer.violations = <<>>)
        /\ \A j, k \in 1..Len(probe.answer.violations) :
              (/\ probe.answer.violations[j] = probe.answer.violations[k]
               /\ probe.answer.violations[j] # "Temporal inconsistency") => j = k
        /\ Cardinality({k \in 1..Len(probe.answer.violations) :
                          probe.answer.violations[k] = "Temporal inconsistency"})
              = IF probe.answer.new_fact.predicate = "was_at"
                   /\ probe.answer.new_fact.time # NoTime
                THEN Cardinality({i \in 1..Len(probe.facts) :
                        /\ probe.facts[i].subject = probe.answer.new_fact.subject
                        /\ probe.facts[i].predicate = "was_at"
                        /\ probe.facts[i].time # NoTime
                        /\ probe.facts[i].object # probe.answer.new_fact.object
                        /\ probe.facts[i].time - probe.answer.new_fact.time < 30
                        /\ probe.answer.new_fact.time - probe.facts[i].time < 30})
                ELSE 0

\* a candidate rejected with the temporal rule reported twice
C22_TemporalReportedTwice ==
    /\ probe.answer.op = "check_consistency"
    /\ Len(probe.answer.violations) = 2
    /\ probe.answer.violations[1] = "Temporal inconsistency"
    /\ probe.answer.violations[2] = "Temporal inconsistency"

\* C23: the uniqueness rule rejects a candidate exactly when the candidate is
\* an is_murderer fact with object "true" and the store already holds an
\* is_murderer fact with object "true"; every other candidate passes the rule.
C23_UniquenessOnSecondTrue ==
    probe.answer.op = "check_consistency" =>
        ((\E k \in 1..Len(probe.answer.violations) :
                probe.answer.violations[k] = "Uniqueness violation")
           <=> /\ probe.answer.new_fact.predicate = "is_murderer"
               /\ probe.answer.new_fact.object = "true"
               /\ \E i \in 1..Len(probe.facts) :
                     /\ probe.facts[i].predicate = "is_murderer"
                     /\ probe.facts[i].object = "true")

\* the rule as the code applies it: the object of the candidate is not read
C23_UniquenessOnAnyObject ==
    probe.answer.op = "check_consistency" =>
        ((\E k \in 1..Len(probe.answer.violations) :
                probe.answer.violations[k] = "Uniqueness violation")
           <=> /\ probe.answer.new_fact.predicate = "is_murderer"
               /\ \E i \in 1..Len(probe.facts) :
                     /\ probe.facts[i].predicate = "is_murderer"
                     /\ probe.facts[i].object = "true")

\* an is_murderer candidate with object "false" rejected by the uniqueness rule
C23_InnocentRejected ==
    /\ probe.answer.op = "check_consistency"
    /\ probe.answer.new_fact.predicate = "is_murderer"
    /\ probe.answer.new_fact.object = "false"
    /\ ~probe.answer.ok


\* f is a saw fact whose object and time are the subject and time of the
\* was_at fact g
SawThere(f, g) ==
    /\ f.predicate = "saw"
    /\ g.predicate = "was_at"
    /\ f.object = g.subject
    /\ f.time = g.time

\* C24: the corroboration test is symmetric in its arguments, and is true
\* whenever either fact is a saw fact whose object and time equal the subject
\* and time of the other, was_at, fact.
C24_CorroborationSymmetric ==
    probe.outcome = "done" =>
        /\ probe.claims_corroborate <=> probe.corroborate_swapped
        /\ (SawThere(probe.fact1, probe.fact2) \/ SawThere(probe.fact2, probe.fact1))
              => probe.claims_corroborate

\* the test as the code applies it: identical facts, or the first argument is
\* the saw fact and the second the was_at fact
C24_WitnessFirstArgumentOnly ==
    probe.outcome = "done" =>
        (probe.claims_corroborate
            <=> \/ FactEq(probe.fact1, probe.fact2)
                \/ SawThere(probe.fact1, probe.fact2))

\* a was_at fact tested against the saw fact that names its subject: no
\* corroboration, while the swapped test corroborates
C24_WasAtFirstNotLinked ==
    /\ probe.outcome = "done"
    /\ SawThere(probe.fact2, probe.fact1)
    /\ ~probe.claims_corroborate
    /\ probe.corroborate_swapped


\* the number of facts the events of timeline expand into: a was_at fact, a
\* did fact and an interacted_with fact per object, for each event
RECURSIVE ExpansionSize(_)
ExpansionSize(timeline) ==
    IF timeline = <<>> THEN 0
    ELSE 2 + Len(Head(timeline).objects) + ExpansionSize(Tail(timeline))

\* C25: after store construction each timeline event contributes exactly its
\* expansion to the store (a was_at fact, a did fact, an interacted_with fact
\* per object), so the store holds as many facts as the expansions count.
C25_EachExpansionOnce ==
    probe.outcome = "ok" =>
        Len(probe.facts) = ExpansionSize(probe.case[1].timeline)

\* the store holds the expansion of every event twice: the copy of the case's
\* truth matrix, then the facts _build_derived_facts adds
C25_EachExpansionTwice ==
    probe.outcome = "ok" =>
        /\ Len(probe.facts) = 2 * ExpansionSize(probe.case[1].timeline)
        /\ \A i \in 1..ExpansionSize(probe.case[1].timeline) :
              FactEq(probe.facts[i],
                     probe.facts[i + ExpansionSize(probe.case[1].timeline)])

\* a store built from a one-event timeline holds four facts
C25_OneEventFourFacts ==
    /\ probe.outcome = "ok"
    /\ Len(probe.case[1].timeline) = 1
    /\ Len(probe.facts) = 4


\* the last call was a what_weapon turn that ended in a Lie claim
WeaponLie ==
    /\ result.op = "interrogate_suspect" /\ result.outcome = "ok"
    /\ result.detail.question.intent = "what_weapon"
    /\ LastClaim.truth_status = "lie"

\* C26: in every session a fabricated weapon fact (a Lie answer to
\* what_weapon) names neither the weapon of the Murder record nor the true
\* weapon the store query returned.
C26_WeaponLieAvoidsMurderWeapon ==
    WeaponLie =>
        /\ LastClaim.proposition.predicate = "interacted_with"
        /\ LastClaim.proposition.object # current_case[1].murder.weapon
        /\ result.detail.truth_fact # <<>>
              => LastClaim.proposition.object # result.detail.truth_fact[1].object

\* the same for the weapons the case flags is_murder_weapon, which is what the
\* sampler reads
C26_WeaponLieAvoidsFlaggedWeapon ==
    WeaponLie =>
        /\ LastClaim.proposition.predicate = "interacted_with"
        /\ \A i \in 1..Len(current_case[1].weapon_objects) :
              current_case[1].weapon_objects[i].is_murder_weapon
                 => LastClaim.proposition.object # current_case[1].weapon_objects[i].id
        /\ result.detail.truth_fact = <<>>

\* a Lie claim that names the weapon of the Murder record, in a case whose
\* weapons are all unflagged
C26_LieNamesMurderWeapon ==
    /\ WeaponLie
    /\ LastClaim.proposition.object = current_case[1].murder.weapon
    /\ \A i \in 1..Len(current_case[1].weapon_objects) :
          ~current_case[1].weapon_objects[i].is_murder_weapon


\* the last call was a turn that ended in a True claim
TrueTurn ==
    /\ result.op = "interrogate_suspect" /\ result.outcome = "ok"
    /\ LastClaim.truth_status = "true"

\* C27: a True claim has as proposition exactly the fact the store query
\* returned for the turn, or the 'responded' placeholder when it returned none;
\* a True claim whose predicate is was_at, did or interacted_with is a fact of
\* the store with the speaker as subject.
C27_TrueClaimIsQueriedFact ==
    /\ TrueTurn =>
          /\ result.detail.decided = "true"
          /\ IF result.detail.truth_fact # <<>>
             THEN LastClaim.proposition = result.detail.truth_fact[1]
             ELSE /\ LastClaim.proposition.predicate = "responded"
                  /\ LastClaim.proposition.object = "to_question"
                  /\ LastClaim.proposition.subject = LastClaim.speaker
    /\ \A c \in 1..Len(claims) :
          (/\ claims[c].truth_status = "true"
           /\ claims[c].proposition.predicate \in {"was_at", "did", "interacted_with"})
              => /\ claims[c].proposition.subject = claims[c].speaker
                 /\ \E i \in 1..Len(knowledge_base[1]) :
                       knowledge_base[1][i] = claims[c].proposition

\* a True claim restating a was_at fact of the store
C27_Witness ==
    /\ TrueTurn
    /\ result.detail.truth_fact # <<>>
    /\ LastClaim.proposition.predicate = "was_at"
    /\ LastClaim.speaker = result.detail.suspect


\* C28: in every state reached through start_new_game and interrogate_suspect
\* every Lie claim has an empty contradictions list, so the pressure level is 0
\* for every speaker at every turn.
C28_NoPressure ==
    /\ \A c \in 1..Len(claims) :
          claims[c].truth_status = "lie" => claims[c].contradictions = <<>>
    /\ \A speaker_id \in PersonIds : calculate_pressure_level(claims, speaker_id) = 0

\* one speaker lied twice about one instant, naming two places, after which
\* the ledger still carries no contradiction link
C28_Witness ==
    /\ Len(claims) = 2
    /\ claims[1].truth_status = "lie"
    /\ claims[2].truth_status = "lie"
    /\ claims[1].speaker = claims[2].speaker
    /\ claims[1].proposition.predicate = "was_at"
    /\ claims[2].proposition.predicate = "was_at"
    /\ claims[1].proposition.object # claims[2].proposition.object
    /\ claims[2].contradictions = <<>>


\* C29: in every state reached through start_new_game and interrogate_suspect
\* the corroborations list of every claim is empty.
C29_NoCorroboration ==
    \A c \in 1..Len(claims) : claims[c].corroborations = <<>>

\* a saw claim recorded after a was_at claim of another speaker about the same
\* instant, and not linked to it
C29_Witness ==
    /\ Len(claims) = 2
    /\ claims[1].proposition.predicate = "was_at"
    /\ claims[2].proposition.predicate = "saw"
    /\ claims[1].speaker # claims[2].speaker
    /\ claims[1].proposition.time = claims[2].proposition.time
    /\ claims[2].corroborations = <<>>


\* C30: no claim of the ledger has truth_status Omission: decide() returns
\* True, Lie or Evasion only, and every turn ends in a True, Lie or Evasion
\* claim.
C30_NoOmission ==
    /\ \A c \in 1..Len(claims) :
          /\ claims[c].truth_status \in {"true", "lie", "evasion"}
          /\ claims[c].proposition.predicate # "omits"
    /\ (result.op = "interrogate_suspect" /\ result.outcome = "ok")
          => result.detail.decided \in {"true", "lie", "evasion"}

\* a ledger of a Lie claim followed by a claim of a turn decide() settled by
\* its last branch, Evasion
C30_Witness ==
    /\ result.op = "interrogate_suspect" /\ result.outcome = "ok"
    /\ result.detail.decided = "evasion"
    /\ Len(claims) = 2
    /\ claims[1].truth_status = "lie"
    /\ claims[2].truth_status = "evasion"

====
